---- MODULE Spec2Model ----
(***************************************************************************)
(* A model of xert-poller: the OAuth2 token manager (auth.py), the upstream *)
(* API client (api.py), the webhook client (webhook.py) and the polling     *)
(* orchestrator with change detection (poller.py).                          *)
(*                                                                          *)
(* Python strings are sequences of character codes, so that string          *)
(* comparison (sorting by date, json.dumps(sort_keys=True)) is the          *)
(* lexicographic comparison Python performs.  JSON values are tagged        *)
(* records; a dict is the sequence of its <<key, value>> items in insertion *)
(* order, as a Python dict is.                                              *)
(***************************************************************************)
EXTENDS Integers, Sequences, FiniteSets, TLC

(***************************************************************************)
(* Bounds of the model.                                                     *)
(***************************************************************************)
\* the clock runs over 0..MaxTime
MaxTime == 1
\* the longest activity list of the enrichment specification
MaxActivities == 80
\* the largest instant, expiry and margin of the token-validity checks made alone
MaxStamp == 5

(***************************************************************************)
(* JSON values (the result of resp.json()).                                 *)
(***************************************************************************)
JNull == [t |-> "null"]
JBool(b) == [t |-> "bool", v |-> b]
JInt(n) == [t |-> "int", v |-> n]
JStr(s) == [t |-> "str", v |-> s]
JList(xs) == [t |-> "list", v |-> xs]
JDict(items) == [t |-> "dict", v |-> items]

\* Python truth value of a JSON value
Truthy(x) ==
    CASE x.t = "null" -> FALSE
      [] x.t = "bool" -> x.v
      [] x.t = "int" -> x.v # 0
      [] OTHER -> Len(x.v) > 0

\* key in d
DictHas(d, k) == \E i \in 1..Len(d.v) : d.v[i][1] = k

\* d.get(k, default)
DictGet(d, k, default) ==
    IF DictHas(d, k)
    THEN d.v[CHOOSE i \in 1..Len(d.v) : d.v[i][1] = k][2]
    ELSE default

DictKeys(d) == {d.v[i][1] : i \in 1..Len(d.v)}

\* a < b on Python strings: lexicographic on the character codes
RECURSIVE StrLess(_, _)
StrLess(a, b) ==
    IF b = <<>> THEN FALSE
    ELSE IF a = <<>> THEN TRUE
    ELSE IF a[1] # b[1] THEN a[1] < b[1]
    ELSE StrLess(Tail(a), Tail(b))

\* the keys and strings the payloads of the model use (ASCII codes)
k_success == <<115, 117, 99, 99, 101, 115, 115>>
k_activities == <<97, 99, 116, 105, 118, 105, 116, 105, 101, 115>>
k_start_date == <<115, 116, 97, 114, 116, 95, 100, 97, 116, 101>>
k_date == <<100, 97, 116, 101>>
k_path == <<112, 97, 116, 104>>
k_tl == <<116, 108>>
k_a == <<97>>
k_b == <<98>>
k_c == <<99>>

\* str(n) for 0 <= n: the decimal digits
RECURSIVE Digits(_)
Digits(n) == IF n < 10 THEN <<48 + n>> ELSE Digits(n \div 10) \o <<48 + (n % 10)>>

\* two-digit decimal string: a fixed-width date stamp, so that the string order
\* is the order of the instants, as for the upstream's timestamps
DateStr(n) == <<48 + (n \div 10), 48 + (n % 10)>>

(***************************************************************************)
(* poller.py: _compute_hash                                                 *)
(***************************************************************************)
\* sorted(dct.items()): insertion of one item into a sequence sorted by key
RECURSIVE InsertByKey(_, _)
InsertByKey(item, sorted) ==
    IF sorted = <<>> THEN <<item>>
    ELSE IF StrLess(item[1], sorted[1][1]) THEN <<item>> \o sorted
    ELSE <<sorted[1]>> \o InsertByKey(item, Tail(sorted))

RECURSIVE SortItems(_)
SortItems(items) ==
    IF items = <<>> THEN <<>>
    ELSE InsertByKey(items[Len(items)], SortItems(SubSeq(items, 1, Len(items) - 1)))

\* the items of a dict in the order json.dumps writes them
ItemsInsertionOrder(items) == items

\* deviation: the keys are never sorted
ItemsForDump_insertion(items, sort_keys) == items

ItemsForDump(items, sort_keys) ==
    IF sort_keys THEN SortItems(items) ELSE ItemsInsertionOrder(items)

\* json.dumps(x, sort_keys=...): the serialized text
RECURSIVE JsonDumps(_, _), DumpRange(_, _, _, _), DumpItems(_, _)
JsonDumps(x, sort_keys) ==
    CASE x.t = "null" -> <<110, 117, 108, 108>>
      [] x.t = "bool" -> IF x.v THEN <<116, 114, 117, 101>> ELSE <<102, 97, 108, 115, 101>>
      [] x.t = "int" -> Digits(x.v)
      [] x.t = "str" -> <<34>> \o x.v \o <<34>>
      [] x.t = "list" -> <<91>> \o DumpRange(x.v, 1, Len(x.v), sort_keys) \o <<93>>
      [] x.t = "dict" -> <<123>> \o DumpItems(ItemsForDump(x.v, sort_keys), sort_keys) \o <<125>>

\* the elements xs[lo..hi] in order, joined by ", " (the range is split in halves)
DumpRange(xs, lo, hi, sort_keys) ==
    IF lo > hi THEN <<>>
    ELSE IF lo = hi THEN JsonDumps(xs[lo], sort_keys)
    ELSE LET mid == (lo + hi) \div 2
         IN DumpRange(xs, lo, mid, sort_keys) \o <<44, 32>>
                \o DumpRange(xs, mid + 1, hi, sort_keys)

DumpItems(items, sort_keys) ==
    IF items = <<>> THEN <<>>
    ELSE LET one == <<34>> \o items[1][1] \o <<34, 58, 32>> \o JsonDumps(items[1][2], sort_keys)
         IN IF Len(items) = 1 THEN one
            ELSE one \o <<44, 32>> \o DumpItems(Tail(items), sort_keys)

\* _compute_hash(data): sha256 of the serialization with sorted keys, cut to 16
\* hex digits.  The digest is modelled as collision-free: the fingerprint is the
\* serialized text itself, so two payloads have one fingerprint exactly when
\* their sorted-key serializations are the same text.
compute_hash(data) == JsonDumps(data, TRUE)

\* the text of a payload with the keys in insertion order: identifies the payload
Repr(data) == JsonDumps(data, FALSE)

(***************************************************************************)
(* Program constants and settings.                                          *)
(***************************************************************************)
\* auth.py: access_expiry = created_at + expires_in - 5
ExpirySlack == 5
\* config.py: token_refresh_margin (default)
refresh_margin == 300
\* config.py: training_info_interval / activities_interval (default); the clock
\* of the model advances in steps of one poll interval
PollInterval == 900
\* poller.py: sorted(...)[:50]
MaxEnriched == 50

Resources == {"ti", "act"}
Procs == {"main", "ti", "act"}

VARIABLES
    now,             \* time.time()
    tokens,          \* AuthManager._tokens
    tokenFile,       \* the persisted token file: <<>> when absent, <<record>> otherwise
    state,           \* Poller.state (PollerState)
    running,         \* Poller._running
    pc,              \* where each coroutine is suspended
    loc,             \* the local variables of each coroutine
    call,            \* observation: each coroutine's ensure_valid_token call in progress
    done_calls,      \* observation: the ensure_valid_token calls that returned in the last step
    enrich_obs,      \* observation: the detail answers merged or passed over in the last step
    ended_ticks,     \* observation: the cycle ticks that ended in the last step
    forced_outcome,  \* observation: how the forced start-up cycle of each resource ended,
                     \* kept until the first timed tick begins
    last_fp,         \* observation: fingerprint of the payload last fetched, per resource
    delivered,       \* observation: fingerprint of the payload last delivered with success
    proc,            \* the process: the client sessions, the exit status, the signal
    grant_obs,       \* observation: the grant responses processed in the last step
    granted,         \* observation: a grant request of this run was answered with success
    probe            \* observation: the arguments and result of a function applied alone

vars == <<now, tokens, tokenFile, state, running, pc, loc, call, done_calls, enrich_obs,
          ended_ticks,
          forced_outcome, last_fp, delivered, proc, grant_obs, granted, probe>>

(***************************************************************************)
(* auth.py: TokenData and AuthManager                                       *)
(***************************************************************************)
\* TokenData()
DefaultTokens == [access_token |-> "", refresh_token |-> "", access_expiry |-> 0]

\* deviation: the token still counts as valid at access_expiry - margin
is_access_valid_inclusive(tk, margin, t) ==
    tk.access_token # "" /\ t <= tk.access_expiry - margin

\* deviation: the expiry comparison turned around
is_access_valid_inverted(tk, margin, t) ==
    tk.access_token # "" /\ t > tk.access_expiry - margin

\* TokenData.is_access_valid(margin) at time t
is_access_valid(tk, margin, t) ==
    tk.access_token # "" /\ t < tk.access_expiry - margin

\* data.get(k, default) on a grant response body
FieldOr(data, k, default) == IF k \in DOMAIN data THEN data[k] ELSE default

\* deviation: a response without refresh_token clears the refresh token
parse_token_response_drop_refresh(tk, data, t) ==
    [access_token |-> FieldOr(data, "access_token", ""),
     refresh_token |-> FieldOr(data, "refresh_token", ""),
     access_expiry |-> FieldOr(data, "created_at", t) + FieldOr(data, "expires_in", 0)
                         - ExpirySlack]

\* AuthManager._parse_token_response: the TokenData built at time t
parse_token_response(tk, data, t) ==
    [access_token |-> FieldOr(data, "access_token", ""),
     refresh_token |-> FieldOr(data, "refresh_token", tk.refresh_token),
     access_expiry |-> FieldOr(data, "created_at", t) + FieldOr(data, "expires_in", 0)
                         - ExpirySlack]

\* deviation: the access token is not written
save_tokens_without_access(tk) ==
    <<[access_token |-> "",
       refresh_token |-> tk.refresh_token,
       access_expiry |-> tk.access_expiry]>>

\* AuthManager._save_tokens: the content written to the token file
save_tokens(tk) ==
    <<[access_token |-> tk.access_token,
       refresh_token |-> tk.refresh_token,
       access_expiry |-> tk.access_expiry]>>

\* AuthManager._load_tokens
load_tokens(file) ==
    IF file = <<>> THEN DefaultTokens
    ELSE [access_token |-> file[1].access_token,
          refresh_token |-> file[1].refresh_token,
          access_expiry |-> file[1].access_expiry]

\* An HTTP exchange as the clients see it: a transport error (exception,
\* timeout), or a status with a body.
HttpError == [err |-> TRUE, status |-> 0, body |-> JNull]
Http(status, body) == [err |-> FALSE, status |-> status, body |-> body]

\* deviation: any answered request counts as a grant
grant_ok_any_status(resp) == ~resp.err

\* _password_grant / _refresh_grant once the response is in: the grant succeeds
\* on status 200, and then replaces and persists the TokenData
grant_ok(resp) == ~resp.err /\ resp.status = 200

\* the token manager's state after the grant response: [tokens, file]
after_grant(A, resp, t) ==
    IF grant_ok(resp)
    THEN LET tk == parse_token_response(A.tokens, resp.body, t)
         IN [tokens |-> tk, file |-> save_tokens(tk)]
    ELSE A

\* deviation: the refresh grant is never tried
ensure_entry_password_first(tk, t) ==
    IF tk.access_token # "" /\ t < tk.access_expiry - refresh_margin THEN "valid"
    ELSE "password"

\* ensure_valid_token up to its first suspension: the token is valid, or a
\* refresh grant is requested, or a password grant is requested
ensure_entry(tk, t) ==
    IF is_access_valid(tk, refresh_margin, t) THEN "valid"
    ELSE IF tk.refresh_token # "" THEN "refresh"
    ELSE "password"

(***************************************************************************)
(* api.py: XertAPI                                                          *)
(***************************************************************************)
\* deviation: the body is parsed whatever the status
api_get_any_status(resp) == IF ~resp.err THEN resp.body ELSE JNull

\* XertAPI._get: the parsed body on status 200, None otherwise
api_get(resp) == IF ~resp.err /\ resp.status = 200 THEN resp.body ELSE JNull

\* get_training_info / get_activities / get_activity_detail: a dict or None
dict_or_none(result) == IF result.t = "dict" THEN result ELSE JNull

(***************************************************************************)
(* webhook.py: WebhookClient.send                                           *)
(***************************************************************************)
webhook_send(resp) == ~resp.err /\ resp.status = 200

(***************************************************************************)
(* poller.py: PollerState                                                   *)
(***************************************************************************)
InitialPollerState ==
    [training_info_hash |-> <<>>,
     activities_hash |-> <<>>,
     last_training_info |-> JDict(<<>>),
     last_activities |-> JDict(<<>>)]

HashOf(st, r) == IF r = "ti" THEN st.training_info_hash ELSE st.activities_hash
LastOf(st, r) == IF r = "ti" THEN st.last_training_info ELSE st.last_activities

\* self.state.<r>_hash = data_hash; self.state.last_<r> = data
store(st, r, data_hash, data) ==
    IF r = "ti"
    THEN [st EXCEPT !.training_info_hash = data_hash, !.last_training_info = data]
    ELSE [st EXCEPT !.activities_hash = data_hash, !.last_activities = data]

\* deviation: a forced poll is compared like any other and then kept silent
should_send_unforced(force_send, data_hash, stored_hash) ==
    ~force_send /\ data_hash # stored_hash

\* deviation: every fetched payload is sent
should_send_always(force_send, data_hash, stored_hash) == TRUE

\* if force_send or data_hash != self.state.<r>_hash
should_send(force_send, data_hash, stored_hash) ==
    force_send \/ data_hash # stored_hash

(***************************************************************************)
(* poller.py: _poll_activities, the enrichment                              *)
(***************************************************************************)
\* a.get("start_date", {}).get("date")
date_of(a, default) == DictGet(DictGet(a, k_start_date, JDict(<<>>)), k_date, default)

\* a.get(...).get(...) raises AttributeError when the entry is no dict, or its
\* start_date is present and is no dict
entry_raises(a) ==
    \/ a.t # "dict"
    \/ DictHas(a, k_start_date) /\ DictGet(a, k_start_date, JNull).t # "dict"

\* [a for a in activities if a.get("start_date", {}).get("date")]
\* deviation: no entry is filtered out
with_date_all(activities) == activities

with_date(activities) == SelectSeq(activities, LAMBDA a : Truthy(date_of(a, JNull)))

\* sorted(..., key=date, reverse=True): stable, the dates compared as strings.
\* Entry j comes before entry i when its date is greater, or when it stands
\* earlier in xs and its date is not smaller; an entry's place is one more
\* than the number of entries before it (placed: the pairs <<place, index>>).
sort_desc(xs) ==
    LET n == Len(xs)
        key == [i \in 1..n |-> date_of(xs[i], JStr(<<>>)).v]
        before(j, i) == \/ StrLess(key[i], key[j])
                        \/ j < i /\ ~StrLess(key[j], key[i])
        placed == {<<Cardinality({j \in 1..n : before(j, i)}) + 1, i>> : i \in 1..n}
    IN [q \in 1..n |-> xs[(CHOOSE pr \in placed : pr[1] = q)[2]]]

\* xs[:n]
take(xs, n) == SubSeq(xs, 1, IF Len(xs) < n THEN Len(xs) ELSE n)

\* deviation: the entries are cut to the cap in the order of the list
sorted_activities_unsorted(activities) == take(with_date(activities), MaxEnriched)

\* activities = sorted([a for a in activities if ...date], key=date, reverse=True)[:50]
sorted_activities(activities) == take(sort_desc(with_date(activities)), MaxEnriched)

\* deviation: {**detail, **activity} in the order of the keys of activity: on a
\* key of both the value of the list entry is kept
merge_entry_wins(activity, detail) ==
    JDict(activity.v \o SelectSeq(detail.v, LAMBDA it : ~DictHas(activity, it[1])))

\* {**activity, **detail}: the keys of activity in their order, each with
\* detail's value when detail has the key, then the keys only detail has
merge(activity, detail) ==
    LET over == [i \in 1..Len(activity.v) |->
                    <<activity.v[i][1],
                      DictGet(detail, activity.v[i][1], activity.v[i][2])>>]
        new == SelectSeq(detail.v, LAMBDA it : ~DictHas(activity, it[1]))
    IN JDict(over \o new)

\* if detail and detail.get("success")
detail_usable(detail) ==
    Truthy(detail) /\ Truthy(DictGet(detail, k_success, JNull))

\* the entry appended for an activity whose detail fetch returned `detail`
enriched_entry(activity, detail) ==
    IF detail_usable(detail) THEN merge(activity, detail) ELSE activity

\* deviation: entries without a path are dropped
RECURSIVE advance_dropping(_, _, _)
advance_dropping(sorted, idx, enriched) ==
    IF idx > Len(sorted) THEN [idx |-> idx, enriched |-> enriched, fetch |-> FALSE]
    ELSE IF Truthy(DictGet(sorted[idx], k_path, JNull))
         THEN [idx |-> idx, enriched |-> enriched, fetch |-> TRUE]
         ELSE advance_dropping(sorted, idx + 1, enriched)

\* the for loop up to its next suspension: entries without a path are appended
\* as they are; the loop stops at the first entry with a path (a detail fetch
\* is issued for it) or at the end of the list
RECURSIVE advance(_, _, _)
advance(sorted, idx, enriched) ==
    IF idx > Len(sorted) THEN [idx |-> idx, enriched |-> enriched, fetch |-> FALSE]
    ELSE IF Truthy(DictGet(sorted[idx], k_path, JNull))
         THEN [idx |-> idx, enriched |-> enriched, fetch |-> TRUE]
         ELSE advance(sorted, idx + 1, Append(enriched, sorted[idx]))

\* data = {"success": data.get("success", True), "activities": enriched_activities}
enriched_payload(data, enriched) ==
    JDict(<< <<k_success, DictGet(data, k_success, JBool(TRUE))>>,
             <<k_activities, JList(enriched)>> >>)

(***************************************************************************)
(* The environment: what the token endpoint, the upstream API and the       *)
(* webhook may answer.                                                      *)
(***************************************************************************)
\* bodies of a 200 answer of the token endpoint: with and without a new refresh
\* token; the access token lives for one poll interval
GrantBodies ==
    {[access_token |-> "a1", refresh_token |-> "r2", expires_in |-> 900],
     [access_token |-> "a1", expires_in |-> 900]}

GrantResponses ==
    {HttpError, Http(401, JNull)} \cup {Http(200, b) : b \in GrantBodies}

\* token files a previous run may have left
TokenFiles ==
    {<<>>,
     save_tokens([access_token |-> "a1", refresh_token |-> "r1", access_expiry |-> 1195])}

\* training-info bodies: two contents, the first also with its keys in another order
TrainingInfo(tl) == JDict(<< <<k_success, JBool(TRUE)>>, <<k_tl, JInt(tl)>> >>)
TrainingInfoReordered(tl) == JDict(<< <<k_tl, JInt(tl)>>, <<k_success, JBool(TRUE)>> >>)

TrainingInfoResponses ==
    {HttpError, Http(500, TrainingInfo(1)), Http(200, JList(<<JInt(1)>>)),
     Http(200, TrainingInfo(1)), Http(200, TrainingInfoReordered(1)),
     Http(200, TrainingInfo(2))}

\* a list entry dated n: {"path": "p<n>", "start_date": {"date": "<n>"}, "a": 1, "b": 2}
Entry(n) ==
    JDict(<< <<k_path, JStr(<<112>> \o DateStr(n))>>,
             <<k_start_date, JDict(<< <<k_date, JStr(DateStr(n))>> >>)>>,
             <<k_a, JInt(1)>>,
             <<k_b, JInt(2)>> >>)

\* entries without a path, without a start_date, with an empty date, and with
\* start_date null
EntryNoPath(n) ==
    JDict(<< <<k_start_date, JDict(<< <<k_date, JStr(DateStr(n))>> >>)>>, <<k_a, JInt(1)>> >>)
EntryNoDate == JDict(<< <<k_path, JStr(<<112, 120>>)>>, <<k_a, JInt(1)>> >>)
EntryEmptyDate ==
    JDict(<< <<k_path, JStr(<<112, 121>>)>>,
             <<k_start_date, JDict(<< <<k_date, JStr(<<>>)>> >>)>> >>)
EntryNullStartDate ==
    JDict(<< <<k_path, JStr(<<112, 122>>)>>, <<k_start_date, JNull>> >>)

ActivityBody(entries) ==
    JDict(<< <<k_success, JBool(TRUE)>>, <<k_activities, JList(entries)>> >>)

ActivityListResponses ==
    {HttpError, Http(401, JNull),
     Http(200, ActivityBody(<<Entry(1)>>)),
     Http(200, ActivityBody(<<Entry(1), EntryNullStartDate>>))}

\* detail bodies: {"success": true, "b": 3, "c": 4} and the same without success
DetailBody == JDict(<< <<k_success, JBool(TRUE)>>, <<k_b, JInt(3)>>, <<k_c, JInt(4)>> >>)
DetailBodyNoSuccess == JDict(<< <<k_b, JInt(3)>>, <<k_c, JInt(4)>> >>)

DetailResponses ==
    {HttpError, Http(200, DetailBody), Http(200, DetailBodyNoSuccess)}

WebhookResponses == {HttpError, Http(500, JNull), Http(200, JNull)}

(***************************************************************************)
(* The coroutines.  "main" runs Poller.start, "ti" and "act" run the two    *)
(* loops.  A coroutine is suspended at an await; one action is the answer   *)
(* arriving and the code running on to the next await.                      *)
(***************************************************************************)
\* `submitted` is the refresh token the call's refresh grant request carries
NoCall ==
    [active |-> FALSE, entry_valid |-> FALSE, had_refresh |-> FALSE, events |-> <<>>,
     submitted |-> ""]

NoLoc ==
    [ctx |-> "none", force |-> FALSE, token |-> "", data |-> JNull, sorted |-> <<>>,
     idx |-> 0, enriched |-> <<>>,
     \* observations of the tick in progress: the answer to its fetch, the body
     \* fetched, the paths of its detail fetches, the fingerprint it computed, and
     \* the stored fingerprint, stored payload and last fetched fingerprint at its start
     answer |-> "none", raw |-> JNull, detail_log |-> <<>>, fetched |-> FALSE, fp |-> <<>>,
     pre_hash |-> <<>>, pre_last |-> JNull, pre_fp |-> <<>>,
     \* the paths whose detail fetch failed, and the steps of the tick in the order
     \* taken: "token" or "token_failed", "fetch", "detail" (each detail fetch),
     \* "compare", "notify"
     detail_failed |-> <<>>, trace |-> <<>>]

\* the part of the state the control operators below transform
Ctl == [pc |-> pc, loc |-> loc, call |-> call, done_calls |-> <<>>, enrich_obs |-> <<>>,
        ended_ticks |-> <<>>, forced_outcome |-> forced_outcome, grant_obs |-> <<>>]

\* the token manager's state
Auth == [tokens |-> tokens, file |-> tokenFile]

\* the validity of a TokenState as the specification defines it
TokenStateValid(tk, t) == tk.access_token # "" /\ t < tk.access_expiry - refresh_margin

\* observation of a call of ensure_valid_token that has returned: who called,
\* when it returned, whether the TokenState was valid and a refresh token was
\* present when it was entered, the grant requests and their results, the value
\* returned (None is ""), and the token manager's state before and after the
\* step in which it returned
DoneCall(p, c, tok, before, after) ==
    [by |-> p, at |-> now, entry_valid |-> c.entry_valid, had_refresh |-> c.had_refresh,
     events |-> c.events, result |-> tok, before |-> before, after |-> after]

NewCall(A) ==
    [active |-> TRUE, entry_valid |-> TokenStateValid(A.tokens, now),
     had_refresh |-> A.tokens.refresh_token # "", events |-> <<>>, submitted |-> ""]

\* await self.api.get_training_info(token) / get_activities(token, ...)
issue_fetch(S, p, tok) ==
    [S EXCEPT !.pc[p] = "fetch", !.loc[p].token = tok, !.loc[p].trace = Append(@, "fetch")]

\* ensure_valid_token up to its first await, called by p: the token is valid
\* and is returned, or a grant request is issued
enter_ensure(S, p, A) ==
    LET e == ensure_entry(A.tokens, now)
    IN IF e = "valid"
       THEN [S EXCEPT !.done_calls =
                 Append(@, DoneCall(p, NewCall(A), A.tokens.access_token, A, A))]
       ELSE [S EXCEPT !.pc[p] = e,
                      !.call[p] = [NewCall(A) EXCEPT
                                      !.events = <<e>>,
                                      !.submitted = IF e = "refresh"
                                                    THEN A.tokens.refresh_token ELSE ""]]

\* _poll_training_info / _poll_activities up to the first await
begin_poll(S, p, r, force, A, st, fps) ==
    LET l == [NoLoc EXCEPT !.ctx = r, !.force = force, !.pre_hash = HashOf(st, r),
                           !.pre_last = LastOf(st, r), !.pre_fp = fps[r]]
        S1 == enter_ensure([S EXCEPT !.loc[p] = l], p, A)
    IN IF S1.call[p].active THEN S1
       ELSE issue_fetch([S1 EXCEPT !.loc[p].trace = <<"token">>], p, A.tokens.access_token)

\* deviation: the loop ends after one poll
loop_next_once(S, p) ==
    [S EXCEPT !.pc[p] = "done", !.loc[p] = NoLoc]

\* while self._running: await asyncio.sleep(...); await self._poll_...()
loop_next(S, p) ==
    [S EXCEPT !.pc[p] = IF running THEN "sleep" ELSE "done", !.loc[p] = NoLoc]

\* the two loop tasks are created and start() awaits gather()
create_tasks(S) ==
    [S EXCEPT !.pc = [q \in Procs |-> IF q = "main" THEN "gather"
                                      ELSE IF running THEN "sleep" ELSE "done"],
              !.loc["main"] = NoLoc]

\* a poll returns.  In start() the forced training-info poll is followed by the
\* forced activities poll, and that one by the creation of the loop tasks; in a
\* loop the poll is followed by the next iteration.
end_tick(S, p, r, outcome, A, st, fps) ==
    LET l == S.loc[p]
        S1 == [S EXCEPT !.ended_ticks =
                            Append(@, [r |-> r, by |-> p, forced |-> l.force,
                                       outcome |-> outcome, answer |-> l.answer,
                                       raw |-> l.raw, detail_log |-> l.detail_log,
                                       fetched |-> l.fetched, data |-> l.data,
                                       fp |-> l.fp, pre_fp |-> l.pre_fp,
                                       pre_hash |-> l.pre_hash, pre_last |-> l.pre_last,
                                       detail_failed |-> l.detail_failed,
                                       trace |-> l.trace, st_before |-> st]),
                        !.forced_outcome[r] = IF l.force THEN outcome ELSE @]
    IN IF p = "main"
       THEN IF r = "ti" THEN begin_poll(S1, p, "act", TRUE, A, st, fps)
            ELSE create_tasks(S1)
       ELSE loop_next(S1, p)

\* deviation: a poll goes on to its fetch without a token
token_result_fetch_anyway(S, p, tok, A, st, fps) ==
    LET S1 == [S EXCEPT !.call[p] = NoCall,
                        !.done_calls = Append(@, DoneCall(p, S.call[p], tok, Auth, A)),
                        !.loc[p].trace =
                            Append(@, IF tok = "" THEN "token_failed" ELSE "token")]
    IN IF S.loc[p].ctx = "start"
       THEN IF tok = ""
            THEN [S1 EXCEPT !.pc[p] = "returned", !.loc[p] = NoLoc]
            ELSE begin_poll(S1, p, "ti", TRUE, A, st, fps)
       ELSE issue_fetch(S1, p, tok)

\* ensure_valid_token returns `tok` (None is "") after a grant
token_result(S, p, tok, A, st, fps) ==
    LET S1 == [S EXCEPT !.call[p] = NoCall,
                        !.done_calls = Append(@, DoneCall(p, S.call[p], tok, Auth, A)),
                        !.loc[p].trace =
                            Append(@, IF tok = "" THEN "token_failed" ELSE "token")]
    IN IF S.loc[p].ctx = "start"
       THEN IF tok = ""
            THEN [S1 EXCEPT !.pc[p] = "returned", !.loc[p] = NoLoc]
            ELSE begin_poll(S1, p, "ti", TRUE, A, st, fps)
       ELSE IF tok = ""
            THEN end_tick(S1, p, S.loc[p].ctx, "token_failed", A, st, fps)
            ELSE issue_fetch(S1, p, tok)

\* an exception leaves the poll: it leaves start() (directly, or through
\* gather()) and run_poller, and the event loop is closed
raise(S, p) ==
    [S EXCEPT !.pc = [q \in Procs |-> IF q = "main" THEN "raised" ELSE "dead"],
              !.loc = [q \in Procs |-> NoLoc],
              !.call = [q \in Procs |-> NoCall]]

SetCtl(S) ==
    /\ pc' = S.pc
    /\ loc' = S.loc
    /\ call' = S.call
    /\ done_calls' = S.done_calls
    /\ enrich_obs' = S.enrich_obs
    /\ ended_ticks' = S.ended_ticks
    /\ forced_outcome' = S.forced_outcome
    /\ grant_obs' = S.grant_obs

\* the process while run_until_complete(run_poller(settings)) runs: the three
\* client sessions are open, no signal has arrived, no exit status yet
Clients == {"auth", "api", "webhook"}

RunningProcess ==
    [phase |-> "running", signalled |-> FALSE, exit_status |-> "none",
     sessions |-> [c \in Clients |-> "open"], tasks_cancelled |-> FALSE]

(***************************************************************************)
(* Initial states: run_poller has entered the three clients (the token file *)
(* is loaded) and built the Poller; start() has not run yet.                *)
(***************************************************************************)
Init ==
    /\ now = 0
    /\ tokenFile \in TokenFiles
    /\ tokens = load_tokens(tokenFile)
    /\ state = InitialPollerState
    /\ running = FALSE
    /\ pc = [p \in Procs |-> IF p = "main" THEN "init" ELSE "unborn"]
    /\ loc = [p \in Procs |-> NoLoc]
    /\ call = [p \in Procs |-> NoCall]
    /\ done_calls = <<>>
    /\ enrich_obs = <<>>
    /\ ended_ticks = <<>>
    /\ forced_outcome = [r \in Resources |-> "none"]
    /\ last_fp = [r \in Resources |-> <<>>]
    /\ delivered = [r \in Resources |-> <<>>]
    /\ proc = RunningProcess
    /\ grant_obs = <<>>
    /\ granted = FALSE
    /\ probe = <<>>

(***************************************************************************)
(* Poller.start up to its first await: self._running = True, then           *)
(* ensure_valid_token; with a token, the forced training-info poll begins.  *)
(***************************************************************************)
Start ==
    /\ pc["main"] = "init"
    /\ running' = TRUE
    /\ LET S0 == enter_ensure([Ctl EXCEPT !.loc["main"] = [NoLoc EXCEPT !.ctx = "start"]],
                              "main", Auth)
       IN SetCtl(IF S0.call["main"].active THEN S0
                 ELSE begin_poll(S0, "main", "ti", TRUE, Auth, state, last_fp))
    /\ UNCHANGED <<proc, probe, granted, now, tokens, tokenFile, state, last_fp, delivered>>

\* a loop's sleep ends and its poll begins
Wake(p) ==
    /\ p \in Resources
    /\ pc[p] = "sleep"
    /\ SetCtl(begin_poll([Ctl EXCEPT !.forced_outcome = [r \in Resources |-> "none"]],
                         p, p, FALSE, Auth, state, last_fp))
    /\ UNCHANGED <<proc, probe, granted, now, tokens, tokenFile, state, running, last_fp, delivered>>

\* a grant request answered with status 200
GrantAnswered(resp) == ~resp.err /\ resp.status = 200

\* observation of a grant response processed at time `now`: who asked, which
\* grant, the response, what the grant reported, and the token manager's state
\* before and after
GrantObs(p, kind, resp, ok, before, after) ==
    [by |-> p, kind |-> kind, resp |-> resp, ok |-> ok, at |-> now,
     before |-> before, after |-> after]

\* the answer to a refresh grant request arrives
RefreshResponse(p, Answers) ==
    /\ pc[p] = "refresh"
    /\ \E resp \in Answers :
          LET A == after_grant(Auth, resp, now)
              ok == grant_ok(resp)
              S1 == [Ctl EXCEPT !.call[p].events =
                                   Append(@, IF ok THEN "refresh_ok" ELSE "refresh_failed"),
                                !.grant_obs = <<GrantObs(p, "refresh", resp, ok, Auth, A)>>]
          IN /\ tokens' = A.tokens
             /\ granted' = (granted \/ GrantAnswered(resp))
             /\ tokenFile' = A.file
             /\ IF ok
                THEN SetCtl(token_result(S1, p, A.tokens.access_token, A, state, last_fp))
                ELSE SetCtl([S1 EXCEPT !.pc[p] = "password",
                                       !.call[p].events = Append(@, "password")])
    /\ UNCHANGED <<proc, probe, now, state, running, last_fp, delivered>>

\* the answer to a password grant request arrives
PasswordResponse(p, Answers) ==
    /\ pc[p] = "password"
    /\ \E resp \in Answers :
          LET A == after_grant(Auth, resp, now)
              ok == grant_ok(resp)
              S1 == [Ctl EXCEPT !.call[p].events =
                                   Append(@, IF ok THEN "password_ok" ELSE "password_failed"),
                                !.grant_obs = <<GrantObs(p, "password", resp, ok, Auth, A)>>]
          IN /\ tokens' = A.tokens
             /\ granted' = (granted \/ GrantAnswered(resp))
             /\ tokenFile' = A.file
             /\ SetCtl(token_result(S1, p, IF ok THEN A.tokens.access_token ELSE "",
                                    A, state, last_fp))
    /\ UNCHANGED <<proc, probe, now, state, running, last_fp, delivered>>

(***************************************************************************)
(* The compare-and-notify step of both polls (poller.py 109-117, 157-165):  *)
(* the fingerprint is computed; if the cycle is forced or the fingerprint   *)
(* differs from the stored one, the fingerprint and the payload are stored  *)
(* and the webhook request is issued; otherwise the poll returns.           *)
(***************************************************************************)
Compare(S, p, r, data) ==
    LET data_hash == compute_hash(data)
        fps == [last_fp EXCEPT ![r] = data_hash]
        S1 == [S EXCEPT !.loc[p] = [S.loc[p] EXCEPT !.data = data, !.fetched = TRUE,
                                                    !.fp = data_hash, !.sorted = <<>>,
                                                    !.idx = 0, !.enriched = <<>>,
                                                    !.trace = Append(@, "compare")]]
    IN /\ last_fp' = fps
       /\ IF should_send(S.loc[p].force, data_hash, HashOf(state, r))
          THEN /\ state' = store(state, r, data_hash, data)
               /\ SetCtl([S1 EXCEPT !.pc[p] = "send", !.loc[p].trace = Append(@, "notify")])
          ELSE /\ state' = state
               /\ SetCtl(end_tick(S1, p, r, "unchanged", Auth, state, fps))

\* the for loop of _poll_activities runs on from entry idx: to the next detail
\* fetch, or to the end of the list and into the compare step
Enrich(S, p, data, sorted, idx, enriched) ==
    LET adv == advance(sorted, idx, enriched)
    IN IF adv.fetch
       THEN /\ SetCtl([S EXCEPT !.pc[p] = "detail",
                                !.loc[p] = [S.loc[p] EXCEPT
                                    !.data = data, !.sorted = sorted, !.idx = adv.idx,
                                    !.enriched = adv.enriched,
                                    !.trace = Append(@, "detail"),
                                    !.detail_log =
                                        Append(@, DictGet(sorted[adv.idx], k_path, JNull).v)]])
            /\ UNCHANGED <<state, last_fp>>
       ELSE Compare(S, p, "act", enriched_payload(data, adv.enriched))

\* a fetch answer that carries a record: status 200 and a body that is a dict
UsableAnswer(resp) == ~resp.err /\ resp.status = 200 /\ resp.body.t = "dict"

\* the answer to the resource fetch arrives
FetchResponse(p, TiAnswers, ActAnswers) ==
    /\ pc[p] = "fetch"
    /\ LET r == loc[p].ctx
       IN \E resp \in (IF r = "ti" THEN TiAnswers ELSE ActAnswers) :
            LET data == dict_or_none(api_get(resp))
                activities == DictGet(data, k_activities, JList(<<>>))
                S == [Ctl EXCEPT !.loc[p].answer =
                                     IF UsableAnswer(resp) THEN "usable" ELSE "unusable",
                                 !.loc[p].raw = data]
            IN IF data.t = "null"
               THEN /\ SetCtl(end_tick(S, p, r, "fetch_failed", Auth, state, last_fp))
                    /\ UNCHANGED <<state, last_fp>>
               ELSE IF r = "ti"
               THEN Compare(S, p, r, data)
               ELSE IF ~Truthy(activities)
               THEN Compare(S, p, r, data)
               ELSE IF \E i \in 1..Len(activities.v) : entry_raises(activities.v[i])
               THEN /\ SetCtl(raise(S, p))
                    /\ UNCHANGED <<state, last_fp>>
               ELSE Enrich(S, p, data, sorted_activities(activities.v), 1, <<>>)
    /\ UNCHANGED <<proc, probe, granted, now, tokens, tokenFile, running, delivered>>

\* the detail answer for an entry, by the last digit of its date: a record with
\* success, a failure, or a record without success
DetailByEntry(activity) ==
    LET d == date_of(activity, JStr(<<48, 48>>)).v[2] % 3
    IN IF d = 0 THEN {Http(200, DetailBody)}
       ELSE IF d = 1 THEN {HttpError}
       ELSE {Http(200, DetailBodyNoSuccess)}

\* the answer to a detail fetch arrives: any answer, or the one that goes with
\* the entry
DetailResponse(p, by_entry) ==
    /\ pc[p] = "detail"
    /\ LET l == loc[p]
           activity == l.sorted[l.idx]
       IN \E resp \in (IF by_entry THEN DetailByEntry(activity) ELSE DetailResponses) :
            LET detail == dict_or_none(api_get(resp))
                entry == enriched_entry(activity, detail)
                S == [Ctl EXCEPT !.enrich_obs =
                         <<[activity |-> activity, detail |-> detail, entry |-> entry]>>,
                                 !.loc[p].detail_failed =
                                     IF UsableAnswer(resp) THEN @
                                     ELSE Append(@, DictGet(activity, k_path, JNull).v)]
            IN Enrich(S, p, l.data, l.sorted, l.idx + 1, Append(l.enriched, entry))
    /\ UNCHANGED <<proc, probe, granted, now, tokens, tokenFile, running, delivered>>

\* the answer to the webhook request arrives; its result is not used
SendResponse(p) ==
    /\ pc[p] = "send"
    /\ \E resp \in WebhookResponses :
          LET ok == webhook_send(resp)
              r == loc[p].ctx
          IN /\ delivered' = IF ok THEN [delivered EXCEPT ![r] = loc[p].fp] ELSE delivered
             /\ SetCtl(end_tick(Ctl, p, r, IF ok THEN "sent" ELSE "send_failed",
                                Auth, state, last_fp))
    /\ UNCHANGED <<proc, probe, granted, now, tokens, tokenFile, state, running, last_fp>>

\* time passes
Tick ==
    /\ now < MaxTime * PollInterval
    /\ now' = now + PollInterval
    /\ done_calls' = <<>>
    /\ enrich_obs' = <<>>
    /\ ended_ticks' = <<>>
    /\ grant_obs' = <<>>
    /\ UNCHANGED <<proc, probe, granted, tokens, tokenFile, state, running, pc, loc, call,
                   forced_outcome, last_fp, delivered>>

\* start() has returned or raised: run_poller leaves its three `async with`
\* blocks (each __aexit__ closes the client's session), run_until_complete
\* returns or re-raises, the event loop is closed, and the process ends: with
\* status 0 when main() returns, with status 1 on the uncaught exception
Finish ==
    /\ proc.phase = "running"
    /\ pc["main"] \in {"returned", "raised"}
    /\ proc' = [proc EXCEPT !.phase = "exited",
                            !.exit_status = IF pc["main"] = "returned" THEN "0" ELSE "1",
                            !.sessions = [c \in Clients |-> "closed"]]
    /\ done_calls' = <<>>
    /\ enrich_obs' = <<>>
    /\ ended_ticks' = <<>>
    /\ grant_obs' = <<>>
    /\ UNCHANGED <<probe, granted, now, tokens, tokenFile, state, running, pc, loc, call,
                   forced_outcome, last_fp, delivered>>

Next ==
    \/ Start
    \/ \E p \in Resources : Wake(p)
    \/ \E p \in Procs : RefreshResponse(p, GrantResponses)
    \/ \E p \in Procs : PasswordResponse(p, GrantResponses)
    \/ \E p \in Procs : FetchResponse(p, TrainingInfoResponses, ActivityListResponses)
    \/ \E p \in Procs : DetailResponse(p, FALSE)
    \/ \E p \in Procs : SendResponse(p)
    \/ Tick
    \/ Finish

Spec == Init /\ [][Next]_vars

(***************************************************************************)
(* __main__.py: SIGTERM or SIGINT arrives while run_until_complete runs.    *)
(* handle_signal calls loop.stop(); run_forever returns at the end of the   *)
(* current iteration and run_until_complete, its future not done, raises    *)
(* RuntimeError.  main() catches KeyboardInterrupt only: the finally clause *)
(* closes the loop and the exception ends the process with status 1.        *)
(* Nothing calls Poller.stop(), no task is cancelled, no coroutine is       *)
(* resumed, and no __aexit__ of the clients runs.                           *)
(***************************************************************************)
Signal ==
    /\ proc.phase = "running"
    /\ pc["main"] \notin {"returned", "raised"}
    /\ proc' = [proc EXCEPT !.phase = "exited", !.signalled = TRUE, !.exit_status = "1"]
    /\ pc' = [p \in Procs |-> IF pc[p] \in {"unborn", "done", "dead"} THEN pc[p]
                              ELSE "abandoned"]
    /\ loc' = [p \in Procs |-> NoLoc]
    /\ call' = [p \in Procs |-> NoCall]
    /\ done_calls' = <<>>
    /\ enrich_obs' = <<>>
    /\ ended_ticks' = <<>>
    /\ grant_obs' = <<>>
    /\ UNCHANGED <<probe, granted, now, tokens, tokenFile, state, running, forced_outcome,
                   last_fp, delivered>>

NextShutdown == Next \/ Signal

SpecShutdown == Init /\ [][NextShutdown]_vars

(***************************************************************************)
(* Poller.stop(), called by some other coroutine while start() runs.  It    *)
(* clears _running and cancels the tasks in _tasks.  Before start() has     *)
(* created the loop tasks _tasks is empty and nothing is cancelled: start() *)
(* goes on with its token request and its forced polls.  Once the tasks     *)
(* exist, each is cancelled at its suspension point (CancelledError is no   *)
(* Exception: no handler of the clients catches it), gather raises          *)
(* CancelledError and start() catches it and returns.                       *)
(***************************************************************************)
Stop ==
    /\ proc.phase = "running"
    /\ pc["main"] \notin {"init", "returned", "raised"}
    /\ running
    /\ running' = FALSE
    /\ IF \A r \in Resources : pc[r] = "unborn"
       THEN UNCHANGED <<pc, loc, call, proc>>
       ELSE /\ pc' = [p \in Procs |-> IF p = "main" THEN "returned"
                                      ELSE IF pc[p] \in {"done", "dead"} THEN pc[p]
                                      ELSE "cancelled"]
            /\ loc' = [p \in Procs |-> NoLoc]
            /\ call' = [p \in Procs |-> NoCall]
            /\ proc' = [proc EXCEPT !.tasks_cancelled = TRUE]
    /\ done_calls' = <<>>
    /\ enrich_obs' = <<>>
    /\ ended_ticks' = <<>>
    /\ grant_obs' = <<>>
    /\ UNCHANGED <<probe, granted, now, tokens, tokenFile, state, forced_outcome,
                   last_fp, delivered>>

\* both loop tasks have returned (their `while self._running` found it false):
\* gather completes and start() returns
GatherReturns ==
    /\ pc["main"] = "gather"
    /\ \A r \in Resources : pc[r] = "done"
    /\ pc' = [pc EXCEPT !["main"] = "returned"]
    /\ done_calls' = <<>>
    /\ enrich_obs' = <<>>
    /\ ended_ticks' = <<>>
    /\ grant_obs' = <<>>
    /\ UNCHANGED <<proc, probe, granted, now, tokens, tokenFile, state, running, loc, call,
                   forced_outcome, last_fp, delivered>>

NextStop == Next \/ Stop \/ GatherReturns

SpecStop == Init /\ [][NextStop]_vars

(***************************************************************************)
(* The forced activities cycle of start() on long lists.  The token file    *)
(* holds a valid token; the upstream answers the list fetch with a list of  *)
(* up to MaxActivities entries (short ones, ones around the cap of 50, and  *)
(* the longest) whose dates are distinct and come in ascending, descending  *)
(* or scattered order, and answers a detail fetch according to the entry    *)
(* asked for.                                                               *)
(***************************************************************************)
\* n entries, entry i dated (i * step) mod 97: the dates are distinct
LongList(n, step) == [i \in 1..n |-> Entry((i * step) % 97)]

LongListLengths ==
    (0..3) \cup ((MaxEnriched - 2)..(MaxEnriched + 2)) \cup {MaxActivities}

LongListResponses ==
    {HttpError, Http(200, JDict(<< <<k_success, JBool(TRUE)>> >>))}
    \cup {Http(200, ActivityBody(LongList(n, step))) :
              n \in LongListLengths, step \in {1, 35, 96}}
    \cup {Http(200, ActivityBody(<<EntryNoPath(2), Entry(1), EntryNoDate,
                                    EntryEmptyDate, Entry(3)>>)),
          Http(200, JDict(<< <<k_success, JBool(TRUE)>>, <<k_activities, JList(<<>>)>>,
                             <<k_tl, JInt(1)>> >>))}

InitEnrich == Init /\ tokenFile # <<>>

NextEnrich ==
    \/ Start
    \/ FetchResponse("main", {Http(200, TrainingInfo(1))}, LongListResponses)
    \/ DetailResponse("main", TRUE)
    \/ SendResponse("main")

SpecEnrich == InitEnrich /\ [][NextEnrich]_vars

(***************************************************************************)
(* The token requests of start() against a token endpoint that answers 200  *)
(* with any body the parser accepts: access_token, refresh_token,           *)
(* expires_in and created_at each present or absent, lifetimes below, at and *)
(* above the refresh margin, and issue times now and in the past.           *)
(***************************************************************************)
\* a field that may be absent
Optional(k, values) == {<<>>} \cup {k :> v : v \in values}

WideGrantBodies ==
    {a @@ r @@ e @@ c :
        a \in Optional("access_token", {"a2"}),
        r \in Optional("refresh_token", {"r2"}),
        e \in Optional("expires_in", {refresh_margin, refresh_margin + ExpirySlack,
                                      refresh_margin + ExpirySlack + 1, PollInterval}),
        c \in Optional("created_at", {0, PollInterval})}

WideGrantResponses ==
    {HttpError, Http(401, JNull)} \cup {Http(200, b) : b \in WideGrantBodies}

NextGrant ==
    \/ Start
    \/ RefreshResponse("main", WideGrantResponses)
    \/ PasswordResponse("main", WideGrantResponses)
    \/ Tick

SpecGrant == Init /\ [][NextGrant]_vars

(***************************************************************************)
(* Functions applied alone.  Nothing of the poller runs: the coroutines, the *)
(* PollerState and the observations stay as they are after construction.    *)
(***************************************************************************)
NothingRuns ==
    /\ state = InitialPollerState
    /\ running = FALSE
    /\ pc = [p \in Procs |-> IF p = "main" THEN "init" ELSE "unborn"]
    /\ loc = [p \in Procs |-> NoLoc]
    /\ call = [p \in Procs |-> NoCall]
    /\ done_calls = <<>>
    /\ enrich_obs = <<>>
    /\ ended_ticks = <<>>
    /\ forced_outcome = [r \in Resources |-> "none"]
    /\ last_fp = [r \in Resources |-> <<>>]
    /\ delivered = [r \in Resources |-> <<>>]
    /\ proc = RunningProcess
    /\ grant_obs = <<>>
    /\ granted = FALSE

\* TokenData.is_access_valid(margin) on any TokenData, at any instant, with any
\* margin up to MaxStamp.  The Python expression yields the empty string or a
\* bool; `valid` is its truth value.
InitValid ==
    /\ now \in 0..MaxStamp
    /\ tokens \in [access_token : {"", "a1"}, refresh_token : {""},
                    access_expiry : 0..MaxStamp]
    /\ tokenFile = <<>>
    /\ probe = <<>>
    /\ NothingRuns

CheckValid ==
    /\ \E margin \in 0..MaxStamp :
          probe' = <<[kind |-> "valid", token |-> tokens.access_token,
                      expiry |-> tokens.access_expiry, margin |-> margin, at |-> now,
                      valid |-> is_access_valid(tokens, margin, now)]>>
    /\ UNCHANGED <<now, tokens, tokenFile, state, running, pc, loc, call, done_calls,
                   enrich_obs, ended_ticks, forced_outcome, last_fp, delivered, proc,
                   grant_obs, granted>>

NextValid == CheckValid

SpecValid == InitValid /\ [][NextValid]_vars

\* _compute_hash on two payloads.  A payload is a record with a number, and a
\* record that holds a number and a list of one record; each of the three
\* records has its two keys in either order:
\*   {"a": n, "b": {"c": 2, "a": [{"b": 1, "a": 2}]}}
InOrder(first, second, swap) == IF swap THEN <<second, first>> ELSE <<first, second>>

NestedPayload(n, swap1, swap2, swap3) ==
    LET deepest == JDict(InOrder(<<k_b, JInt(1)>>, <<k_a, JInt(2)>>, swap3))
        inner == JDict(InOrder(<<k_c, JInt(2)>>, <<k_a, JList(<<deepest>>)>>, swap2))
    IN JDict(InOrder(<<k_a, JInt(n)>>, <<k_b, inner>>, swap1))

NestedPayloads ==
    {NestedPayload(n, s1, s2, s3) : n \in 1..2, s1 \in BOOLEAN, s2 \in BOOLEAN, s3 \in BOOLEAN}

InitHash ==
    /\ now = 0
    /\ tokens = DefaultTokens
    /\ tokenFile = <<>>
    /\ \E a \in NestedPayloads, b \in NestedPayloads :
          probe = <<[kind |-> "payloads", a |-> a, b |-> b]>>
    /\ NothingRuns

Fingerprint ==
    /\ probe[1].kind = "payloads"
    /\ probe' = <<[kind |-> "hash", a |-> probe[1].a, b |-> probe[1].b,
                   hash_a |-> compute_hash(probe[1].a),
                   hash_b |-> compute_hash(probe[1].b)]>>
    /\ UNCHANGED <<now, tokens, tokenFile, state, running, pc, loc, call, done_calls,
                   enrich_obs, ended_ticks, forced_outcome, last_fp, delivered, proc,
                   grant_obs, granted>>

NextHash == Fingerprint

SpecHash == InitHash /\ [][NextHash]_vars

(***************************************************************************)
(* Properties.                                                              *)
(***************************************************************************)
Ended == {ended_ticks[i] : i \in 1..Len(ended_ticks)}
Returned == {done_calls[i] : i \in 1..Len(done_calls)}
SeqSet(xs) == {xs[i] : i \in 1..Len(xs)}

\* the stored fingerprint and payload of the tick's resource are those the tick
\* found when it began
ResourceAsBefore(t) ==
    /\ HashOf(state, t.r) = t.pre_hash
    /\ Repr(LastOf(state, t.r)) = Repr(t.pre_last)

\* the Notifier was invoked in the tick
Notified(t) == t.outcome \in {"sent", "send_failed"}

\* C1: a tick that hands its payload to the Notifier and whose delivery fails
\* leaves the stored fingerprint and the stored payload of its resource as they
\* were before the tick.
C1_DeliveryFailureKeepsStored ==
    \A t \in Ended : t.outcome = "send_failed" => ResourceAsBefore(t)

\* no tick of resource r is in progress
BetweenTicks(r) == \A p \in Procs : loc[p].ctx # r

\* C2: between ticks the stored fingerprint of a resource is empty or is the
\* fingerprint of the payload most recently delivered with success.
C2_StoredFingerprintWasDelivered ==
    \A r \in Resources :
        BetweenTicks(r) => HashOf(state, r) = <<>> \/ HashOf(state, r) = delivered[r]

\* the loop tasks exist and no timed tick has begun yet
BeforeFirstTimedTick ==
    /\ pc["main"] = "gather"
    /\ forced_outcome["act"] # "none"

C5_UnchangedContentIsSuppressed ==
    \A t \in Ended :
        (~t.forced /\ t.fetched /\ t.pre_fp # <<>> /\ t.fp = t.pre_fp) =>
            /\ t.outcome = "unchanged"
            /\ ResourceAsBefore(t)
            /\ state = t.st_before

C5_Witness ==
    \E t \in Ended :
        /\ ~t.forced /\ t.fetched /\ t.fp = t.pre_fp /\ t.outcome = "unchanged"
        /\ Repr(t.data) # Repr(t.pre_last)

\* the grant requests of one call, so far: a refresh request comes first and
\* only with a refresh token, a password request comes first without one, and
\* otherwise right after the failure of the refresh grant; nothing follows a
\* refresh grant that succeeded
GrantOrder(c) ==
    LET ev == c.events
    IN /\ ev # <<>> => ev[1] = IF c.had_refresh THEN "refresh" ELSE "password"
       /\ \A i \in 1..Len(ev) :
             /\ ev[i] = "refresh" => i = 1
             /\ ev[i] = "refresh_ok" => i = Len(ev)
             /\ ev[i] = "refresh_failed" => i < Len(ev) /\ ev[i + 1] = "password"
             /\ (ev[i] = "password" /\ i > 1) => ev[i - 1] = "refresh_failed"

\* C6: in a call of ensure_valid_token with an invalid access token, a refresh
\* grant that succeeds is followed by no password grant request; without a
\* refresh token, or after the refresh grant failed, a password grant request is
\* issued, and only after the refresh attempt has completed.
C6_GrantFallbackOrder ==
    /\ \A p \in Procs : call[p].active => GrantOrder(call[p])
    /\ \A c \in Returned :
          /\ GrantOrder(c)
          /\ ~c.entry_valid =>
                /\ c.events # <<>>
                /\ c.events[Len(c.events)] \in {"refresh_ok", "password_ok", "password_failed"}
                /\ ("refresh_ok" \in SeqSet(c.events)) # ("password" \in SeqSet(c.events))

C6_Witness ==
    /\ \E c \in Returned : c.events = <<"refresh", "refresh_failed", "password", "password_ok">>

\* C7: a call of ensure_valid_token entered with a valid TokenState returns the
\* stored access token, issues no grant request and leaves the TokenState and
\* the token file unchanged.
C7_ValidTokenIsReturnedUntouched ==
    \A c \in Returned :
        c.entry_valid =>
            /\ c.events = <<>>
            /\ c.result = c.before.tokens.access_token
            /\ c.after = c.before
            /\ tokens = c.before.tokens /\ tokenFile = c.before.file

C7_Witness ==
    \E c \in Returned : c.entry_valid /\ c.events = <<>> /\ c.by \in Resources

\* C8: a tick whose fetch fails does not invoke the Notifier and leaves the
\* PollerState as it was; its task goes on to the next tick.
C8_FetchFailureChangesNothing ==
    \A t \in Ended :
        t.answer = "unusable" =>
            /\ t.outcome = "fetch_failed"
            /\ ResourceAsBefore(t)
            /\ state = t.st_before
            /\ IF t.by = "main" THEN pc["main"] \notin {"returned", "raised"}
               ELSE pc[t.by] = "sleep" /\ running

C8_Witness ==
    \E t \in Ended : t.answer = "unusable" /\ t.by \in Resources /\ t.pre_hash # <<>>

\* the shallow merge of entry E and detail D: its keys are those of E and of D,
\* a key of D carries D's value, a key only in E carries E's value
IsShallowMerge(m, E, D) ==
    /\ m.t = "dict"
    /\ DictKeys(m) = DictKeys(E) \cup DictKeys(D)
    /\ Len(m.v) = Cardinality(DictKeys(m))
    /\ \A k \in DictKeys(m) :
          Repr(DictGet(m, k, JNull)) =
              Repr(IF DictHas(D, k) THEN DictGet(D, k, JNull) ELSE DictGet(E, k, JNull))

\* C10: whenever a detail fetch returns a record, the entry placed in the
\* enriched payload is the shallow merge of the list entry and that record.
C10_DetailRecordIsMerged ==
    \A o \in SeqSet(enrich_obs) :
        o.detail.t = "dict" => IsShallowMerge(o.entry, o.activity, o.detail)

\* C10 as amended: the merge is made when the detail record carries a truthy
\* success field; with any other detail record the list entry is kept as it is.
C10_SuccessfulDetailIsMerged ==
    \A o \in SeqSet(enrich_obs) :
        o.detail.t = "dict" =>
            IF Truthy(DictGet(o.detail, k_success, JNull))
            THEN IsShallowMerge(o.entry, o.activity, o.detail)
            ELSE Repr(o.entry) = Repr(o.activity)

\* the entry {path, start_date, a: 1, b: 2} merged with {success: true, b: 3, c: 4}
C10_Witness ==
    \E o \in SeqSet(enrich_obs) :
        /\ o.detail.t = "dict" /\ Truthy(DictGet(o.detail, k_success, JNull))
        /\ DictGet(o.activity, k_b, JNull) = JInt(2)
        /\ DictGet(o.entry, k_a, JNull) = JInt(1)
        /\ DictGet(o.entry, k_b, JNull) = JInt(3)
        /\ DictGet(o.entry, k_c, JNull) = JInt(4)

PathOf(a) == DictGet(a, k_path, JNull)
ListOf(body) == DictGet(body, k_activities, JList(<<>>)).v

\* every entry carries a path and a sort date, and no two carry the same date
DistinctDatesAndPaths(acts) ==
    /\ \A i \in 1..Len(acts) : Truthy(PathOf(acts[i])) /\ Truthy(date_of(acts[i], JNull))
    /\ \A i, j \in 1..Len(acts) :
          i # j => date_of(acts[i], JNull).v # date_of(acts[j], JNull).v

\* the detail fetches `log` (paths) and the payload entries `out` of a tick that
\* fetched `acts`: exactly min(n, 50) fetches, for entries of the list, in
\* strictly descending date order, no entry left out is dated later than one
\* fetched, and the payload holds the same entries in the same order
LatestFiftyDescending(acts, log, out) ==
    LET n == Len(acts)
        k == IF n < 50 THEN n ELSE 50
    IN /\ Len(log) = k
       /\ Len(out) = k
       /\ \A i \in 1..k : \E j \in 1..n : PathOf(acts[j]).v = log[i]
       /\ LET src == [i \in 1..k |-> acts[CHOOSE j \in 1..n : PathOf(acts[j]).v = log[i]]]
          IN /\ \A i \in 1..(k - 1) :
                   StrLess(date_of(src[i + 1], JNull).v, date_of(src[i], JNull).v)
             /\ \A j \in 1..n :
                   PathOf(acts[j]).v \notin SeqSet(log) =>
                       StrLess(date_of(acts[j], JNull).v, date_of(src[k], JNull).v)
             /\ \A i \in 1..k :
                   /\ PathOf(out[i]).v = log[i]
                   /\ date_of(out[i], JNull) = date_of(src[i], JNull)

\* C9: an activity-list tick that fetched n entries with distinct dates and
\* paths issues detail fetches for exactly the min(n, 50) latest entries, in
\* descending date order, and the notified payload holds them in that order
\* (the dates are those of the list entries; the detail records carry none).
C9_LatestFiftyEnrichedInOrder ==
    \A t \in Ended :
        (t.r = "act" /\ t.answer = "usable" /\ DistinctDatesAndPaths(ListOf(t.raw))) =>
            /\ Notified(t)
            /\ LatestFiftyDescending(ListOf(t.raw), t.detail_log, ListOf(t.data))

C9_Witness ==
    \E t \in Ended :
        /\ t.r = "act" /\ Notified(t)
        /\ Len(ListOf(t.raw)) > 52
        /\ Len(t.detail_log) = 50
        /\ PathOf(ListOf(t.raw)[1]).v # t.detail_log[1]

\* the entries of a fetched list that lack a sort date
Undated(acts) == {acts[i] : i \in {j \in 1..Len(acts) : ~Truthy(date_of(acts[j], JNull))}}

\* entry e does not appear in the payload entries `out`, merged or not, and no
\* detail fetch of `log` is for it
KeptOut(e, log, out) ==
    /\ \A i \in 1..Len(out) :
          /\ out[i] # e
          /\ Truthy(PathOf(e)) => PathOf(out[i]) # PathOf(e)
    /\ Truthy(PathOf(e)) => PathOf(e).v \notin SeqSet(log)

\* C11: no entry of a fetched activity list that lacks a sort date is the
\* subject of a detail fetch (in a tick in progress or ended), and none appears
\* in the activities of a payload handed to the Notifier.
C11_UndatedEntriesAreExcluded ==
    /\ \A p \in Procs :
          (loc[p].ctx = "act" /\ loc[p].raw.t = "dict") =>
              \A e \in Undated(ListOf(loc[p].raw)) : KeptOut(e, loc[p].detail_log, <<>>)
    /\ \A t \in Ended :
          (t.r = "act" /\ t.raw.t = "dict") =>
              \A e \in Undated(ListOf(t.raw)) :
                  KeptOut(e, t.detail_log, IF Notified(t) THEN ListOf(t.data) ELSE <<>>)

C11_Witness ==
    \E t \in Ended :
        /\ t.r = "act" /\ Notified(t)
        /\ Len(ListOf(t.data)) = 3
        /\ Cardinality(Undated(ListOf(t.raw))) = 2

Probes(kind) == {o \in SeqSet(probe) : o.kind = kind}

\* C12: the token validity check is true exactly when the access token is
\* non-empty and now < access_expiry - margin; at now = access_expiry - margin
\* it is false.
C12_ValidExactlyBeforeTheMargin ==
    \A o \in Probes("valid") :
        /\ o.valid <=> (o.token # "" /\ o.at < o.expiry - o.margin)
        /\ o.at = o.expiry - o.margin => ~o.valid

C12_Witness ==
    \E o \in Probes("valid") :
        o.token # "" /\ o.margin > 0 /\ o.at > 0 /\ o.at = o.expiry - o.margin /\ ~o.valid

\* C13: when a shutdown signal has arrived while both cycle tasks existed, the
\* tasks were cancelled, the three client sessions are closed and the exit
\* status is 0.
C13_SignalEndsGracefully ==
    (proc.signalled /\ \A r \in Resources : pc[r] = "abandoned") =>
        /\ proc.tasks_cancelled
        /\ \A c \in Clients : proc.sessions[c] = "closed"
        /\ proc.exit_status = "0"

Grants == SeqSet(grant_obs)

\* C14: a grant request that ends with a transport error or a status other
\* than 200 reports failure and leaves the in-memory TokenState and the token
\* file as they were.
C14_FailedGrantChangesNothing ==
    \A g \in Grants :
        ~GrantAnswered(g.resp) =>
            /\ ~g.ok
            /\ g.after = g.before
            /\ tokens = g.before.tokens
            /\ tokenFile = g.before.file

C14_Witness ==
    /\ \E g \in Grants :
          g.kind = "refresh" /\ g.resp.status = 401 /\ g.before.file # <<>> /\ ~g.ok
    /\ tokens.access_token # ""

\* the token file holds one record with exactly the three fields of the
\* in-memory TokenState and their values
FileMirrorsMemory ==
    /\ Len(tokenFile) = 1
    /\ DOMAIN tokenFile[1] = {"access_token", "refresh_token", "access_expiry"}
    /\ \A f \in DOMAIN tokenFile[1] : tokenFile[1][f] = tokens[f]

\* C15: after a successful grant and in every state from then on, whichever
\* coroutine ran the grant, the persisted record holds the access_token,
\* refresh_token and access_expiry of the in-memory TokenState.
C15_TokenFileMirrorsMemory ==
    /\ granted => FileMirrorsMemory
    /\ \A g \in Grants : GrantAnswered(g.resp) => granted /\ g.ok /\ FileMirrorsMemory

\* a grant of one cycle task has succeeded while a call of the other is in progress
C15_Witness ==
    /\ granted /\ FileMirrorsMemory
    /\ \E g \in Grants : g.by = "ti" /\ GrantAnswered(g.resp) /\ call["act"].active
    /\ tokens.refresh_token = "r2"

\* C17: when a successful grant response carries no refresh_token, the new
\* TokenState and the persisted record keep the refresh token the TokenState
\* held when the response was processed; the access token is the response's and
\* the expiry is the response's created_at (the time of processing when it
\* gives none) plus its expires_in, less the slack.
C17_RefreshTokenCarriedOver ==
    \A g \in Grants :
        (GrantAnswered(g.resp) /\ "refresh_token" \notin DOMAIN g.resp.body) =>
            /\ tokens.refresh_token = g.before.tokens.refresh_token
            /\ tokenFile # <<>> /\ tokenFile[1].refresh_token = g.before.tokens.refresh_token
            /\ tokens.access_token = g.resp.body.access_token
            /\ tokens.access_expiry =
                  (IF "created_at" \in DOMAIN g.resp.body THEN g.resp.body.created_at
                   ELSE g.at) + g.resp.body.expires_in - ExpirySlack

C17_Witness ==
    \E g \in Grants :
        /\ GrantAnswered(g.resp) /\ "refresh_token" \notin DOMAIN g.resp.body
        /\ g.kind = "refresh"
        /\ g.before.tokens.refresh_token = "r1"
        /\ tokens.refresh_token = "r1"
        /\ tokens.access_expiry # g.before.tokens.access_expiry

\* a and b are the same value up to the order in which their dicts, at any
\* depth, list their keys
RECURSIVE SameUpToKeyOrder(_, _)
SameUpToKeyOrder(a, b) ==
    /\ a.t = b.t
    /\ CASE a.t = "dict" ->
              /\ Len(a.v) = Len(b.v)
              /\ DictKeys(a) = DictKeys(b)
              /\ \A k \in DictKeys(a) :
                    SameUpToKeyOrder(DictGet(a, k, JNull), DictGet(b, k, JNull))
         [] a.t = "list" ->
              /\ Len(a.v) = Len(b.v)
              /\ \A i \in 1..Len(a.v) : SameUpToKeyOrder(a.v[i], b.v[i])
         [] OTHER -> a = b

\* C16: two payloads that are equal up to the insertion order of map keys, at
\* any nesting depth, have the same fingerprint.
C16_FingerprintIgnoresKeyOrder ==
    \A o \in Probes("hash") : SameUpToKeyOrder(o.a, o.b) => o.hash_a = o.hash_b

\* the two payloads differ in the key order of the record inside the list only
C16_Witness ==
    \E o \in Probes("hash") :
        /\ o.a = NestedPayload(1, FALSE, FALSE, FALSE)
        /\ o.b = NestedPayload(1, FALSE, FALSE, TRUE)
        /\ SameUpToKeyOrder(o.a, o.b)
        /\ Repr(o.a) # Repr(o.b)
        /\ o.hash_a = o.hash_b

\* the number of entries of a list that carry a sort date, capped at 50
CandidateCount(acts) ==
    LET dated == Cardinality({i \in 1..Len(acts) : Truthy(date_of(acts[i], JNull))})
    IN IF dated < 50 THEN dated ELSE 50

\* the tick fetched a non-empty list whose entries are records with a record,
\* or nothing, as start_date
EnrichableTick(t) ==
    /\ t.r = "act" /\ t.answer = "usable"
    /\ Len(ListOf(t.raw)) > 0
    /\ \A i \in 1..Len(ListOf(t.raw)) : ~entry_raises(ListOf(t.raw)[i])

\* C18: when the detail fetch of a candidate fails, or the candidate has no
\* path, the candidate is in the enriched payload with exactly its list fields;
\* the candidates after it are processed, in descending date order, and the
\* tick reaches its compare step.
C18_FailedDetailKeepsTheListEntry ==
    \A t \in Ended :
        EnrichableTick(t) =>
            LET acts == ListOf(t.raw)
                out == ListOf(t.data)
                with_path == {i \in 1..Len(out) : Truthy(PathOf(out[i]))}
            IN /\ t.fetched /\ t.outcome \in {"sent", "send_failed", "unchanged"}
               /\ Len(out) = CandidateCount(acts)
               /\ \A i \in 1..(Len(out) - 1) :
                     ~StrLess(date_of(out[i], JStr(<<>>)).v, date_of(out[i + 1], JStr(<<>>)).v)
               /\ Len(t.detail_log) = Cardinality(with_path)
               /\ \A q \in SeqSet(t.detail_failed) : \E i \in with_path : PathOf(out[i]).v = q
               /\ \A i \in 1..Len(out) :
                     (i \notin with_path \/ PathOf(out[i]).v \in SeqSet(t.detail_failed)) =>
                         \E j \in 1..Len(acts) : acts[j] = out[i]

\* of [no path "02", "01", no date, empty date, "03"], detail of "01" failing:
\* the payload is ["03" merged, the entry without path, "01" as in the list]
C18_Witness ==
    \E t \in Ended :
        /\ EnrichableTick(t) /\ Notified(t)
        /\ t.detail_failed = <<PathOf(Entry(1)).v>>
        /\ Len(ListOf(t.data)) = 3
        /\ ListOf(t.data)[1] # Entry(3) /\ PathOf(ListOf(t.data)[1]) = PathOf(Entry(3))
        /\ ListOf(t.data)[2] = EntryNoPath(2)
        /\ ListOf(t.data)[3] = Entry(1)

\* C19: in every activity-list tick whose fetch succeeds, the payload that is
\* fingerprinted is a record of exactly two fields: success, the upstream flag
\* or true when upstream gave none, and activities, a list.
C19_PayloadIsTheReplacedRecord ==
    \A t \in Ended :
        (t.r = "act" /\ t.answer = "usable" /\ t.fetched) =>
            /\ t.data.t = "dict"
            /\ Len(t.data.v) = 2
            /\ DictKeys(t.data) = {k_success, k_activities}
            /\ DictGet(t.data, k_success, JNull) = DictGet(t.raw, k_success, JBool(TRUE))
            /\ DictGet(t.data, k_activities, JNull).t = "list"

StepRank(step) ==
    CASE step \in {"token", "token_failed"} -> 1
      [] step = "fetch" -> 2
      [] step = "detail" -> 3
      [] step = "compare" -> 4
      [] step = "notify" -> 5

\* the steps of a tick so far: the token request comes first, nothing follows
\* its failure, and the steps come in the order token, fetch, detail fetches,
\* compare, notify, each but the detail fetch at most once
StepsInOrder(tr) ==
    /\ tr # <<>> => StepRank(tr[1]) = 1
    /\ "token_failed" \in SeqSet(tr) => Len(tr) = 1
    /\ \A i \in 1..(Len(tr) - 1) :
          \/ StepRank(tr[i]) < StepRank(tr[i + 1])
          \/ tr[i] = "detail" /\ tr[i + 1] = "detail"

\* C20: a tick in which ensure_valid_token returns failure makes no fetch, no
\* detail fetch and no Notifier call and leaves the PollerState unchanged; in a
\* tick that notifies, the token came before the fetch, the fetch before the
\* detail fetches, and these before the comparison and the delivery.
C20_TickStepsInOrder ==
    /\ \A p \in Procs : loc[p].ctx \in Resources => StepsInOrder(loc[p].trace)
    /\ \A c \in Returned :
          c.result = "" =>
              \/ c.by = "main" /\ pc["main"] = "returned"
              \/ \E t \in Ended : t.by = c.by /\ t.trace = <<"token_failed">>
    /\ \A t \in Ended :
          /\ StepsInOrder(t.trace)
          /\ t.trace = <<"token_failed">> =>
                /\ t.answer = "none" /\ t.detail_log = <<>> /\ ~Notified(t)
                /\ ResourceAsBefore(t) /\ state = t.st_before
          /\ Notified(t) =>
                /\ Len(t.trace) = 4 + Len(t.detail_log)
                /\ t.trace[1] = "token" /\ t.trace[2] = "fetch"
                /\ t.trace[Len(t.trace) - 1] = "compare" /\ t.trace[Len(t.trace)] = "notify"

C20_Witness ==
    \E t \in Ended :
        /\ t.by = "act" /\ t.outcome = "sent"
        /\ t.trace = <<"token", "fetch", "detail", "compare", "notify">>

\* the loop task of resource r exists and has not ended
LoopRuns(r) == pc[r] \notin {"unborn", "done", "dead"}

\* C21: once the timed loops run, no outcome of a tick of either resource (token
\* failure, fetch failure, a fetched list with malformed entries, detail
\* failure, delivery failure) stops the later ticks of that resource or of the
\* other one: a loop task that runs keeps running in every step.
C21_NoTickOutcomeStopsTheLoops ==
    [][\A r \in Resources : LoopRuns(r) => LoopRuns(r)']_vars

\* the coroutines whose token grant request is in flight
GrantInFlight == {p \in Procs : pc[p] \in {"refresh", "password"}}

\* C22: under any interleaving of the two loop tasks at their suspension points,
\* at most one token grant request of the shared token manager is in flight at
\* a time, and no two refresh grant requests submit the same refresh token.
C22_OneGrantRequestAtATime ==
    /\ Cardinality(GrantInFlight) <= 1
    /\ \A p, q \in Procs :
          (p # q /\ pc[p] = "refresh" /\ pc[q] = "refresh") =>
              call[p].submitted # call[q].submitted

\* the call returned the access token of the TokenState, not failure (None):
\* the token was valid at entry, or a grant succeeded
ReturnedToken(c) ==
    \/ c.entry_valid
    \/ c.events # <<>> /\ c.events[Len(c.events)] \in {"refresh_ok", "password_ok"}

\* C23: whenever ensure_valid_token returns a token rather than failure, for any
\* grant response accepted with status 200, the returned token is non-empty, is
\* the access token of the current TokenState, and satisfies the validity
\* predicate now < access_expiry - refresh_margin at the time of return.
C23_ReturnedTokenIsValid ==
    \A c \in Returned :
        ReturnedToken(c) =>
            /\ c.result # ""
            /\ c.result = tokens.access_token
            /\ TokenStateValid(tokens, c.at)

\* stop() has been called and has returned: only stop() clears _running
Stopped == ~running /\ pc["main"] # "init"

\* a tick begins in the step: a coroutine enters the poll of a resource
TickBegins == \E p \in Procs : loc'[p].ctx \in Resources /\ loc'[p].ctx # loc[p].ctx

\* a Notifier call is made in the step: a webhook request is issued
NotifierCalled == \E p \in Procs : pc'[p] = "send" /\ pc[p] # "send"

\* C24: when Poller.stop() is called at any moment after start() has begun, no
\* tick begins and no Notifier call is made after stop() has returned (and
\* start() returns in the end).
C24_NothingRunsAfterStop ==
    [][Stopped => ~TickBegins /\ ~NotifierCalled]_vars

====
